---------------------------- MODULE Spec2Model ----------------------------
(***************************************************************************)
(* Verification model of lib/constants.py (ganeti): the configuration      *)
(* version codec (BuildVersion / SplitVersion), the parameter registries   *)
(* (hypervisor, backend, NIC) and the job queue whose files, size limits   *)
(* and status vocabulary the module declares.                              *)
(***************************************************************************)
EXTENDS Integers, Sequences, FiniteSets, TLC

VARIABLES
  call,        \* the last codec call: [op, args, raised, ret]
  prev,        \* the codec call before it
  query,       \* the last registry lookup: [registry, name, declared, vtype, hasDefault]
  up,          \* the master daemon holding the queue is running
  serialFile,  \* JOB_QUEUE_SERIAL_FILE: the last job ID allocated
  memSerial,   \* the daemon's copy of the serial, loaded when it starts
  drainFile,   \* JOB_QUEUE_DRAIN_FILE is present
  preLive,     \* live job files the queue directory held before the first submit here
  jobs,        \* job ID -> the job's record on disk: [status, ops, resumed]
  live,        \* IDs of the job files in the queue directory
  archive,     \* IDs of the job files in JOB_QUEUE_ARCHIVE_DIR
  claimed,     \* IDs of the jobs a scheduling unit of the running daemon holds
  pending,     \* the submit in progress under the queue lock
  handed,      \* the job IDs returned to clients, in order
  last         \* the outcome of the last submit or refused call

codecVars == <<call, prev>>
paramVars == <<query>>
queueVars == <<up, serialFile, memSerial, drainFile, preLive, jobs, live, archive,
               claimed, pending, handed, last>>

(***************************************************************************)
(* Version codec                                                           *)
(***************************************************************************)

\* Largest major version number drawn as an input.
MaxMajor == 1

\* isinstance(x, int)
IsInt(x) == x \in Int

Returned(v) == [raised |-> "none", value |-> v]
Raised(e, v) == [raised |-> e, value |-> v]

\* A BuildVersion that multiplies the minor version by the wrong power of ten.
BuildVersion_MinorShifted(major, minor, revision) ==
  IF ~(IsInt(major) /\ IsInt(minor) /\ IsInt(revision))
  THEN Raised("AssertionError", 0)
  ELSE Returned(1000000 * major + 100000 * minor + 1 * revision)

\* A BuildVersion that validates the range of its arguments.
BuildVersion_RangeChecked(major, minor, revision) ==
  IF ~(IsInt(major) /\ IsInt(minor) /\ IsInt(revision))
  THEN Raised("AssertionError", 0)
  ELSE IF major < 0 \/ minor < 0 \/ minor >= 100 \/ revision < 0 \/ revision >= 10000
  THEN Raised("ValueError", 0)
  ELSE Returned(1000000 * major + 10000 * minor + 1 * revision)

\* def BuildVersion(major, minor, revision)
BuildVersion(major, minor, revision) ==
  IF ~(IsInt(major) /\ IsInt(minor) /\ IsInt(revision))
  THEN Raised("AssertionError", 0)
  ELSE Returned(1000000 * major + 10000 * minor + 1 * revision)

\* A SplitVersion that splits the remainder at three digits instead of four.
SplitVersion_ShortRevision(version) ==
  IF ~IsInt(version)
  THEN Raised("AssertionError", <<>>)
  ELSE LET major == version \div 1000000
           remainder == version % 1000000
           minor == remainder \div 1000
           revision == remainder % 1000
       IN Returned(<<major, minor, revision>>)

\* A SplitVersion that returns minor and revision in the wrong order.
SplitVersion_Swapped(version) ==
  IF ~IsInt(version)
  THEN Raised("AssertionError", <<>>)
  ELSE LET major == version \div 1000000
           remainder == version % 1000000
           minor == remainder \div 10000
           revision == remainder % 10000
       IN Returned(<<major, revision, minor>>)

\* def SplitVersion(version); divmod is floor division with a remainder >= 0
SplitVersion(version) ==
  IF ~IsInt(version)
  THEN Raised("AssertionError", <<>>)
  ELSE LET major == version \div 1000000
           remainder == version % 1000000
           minor == remainder \div 10000
           revision == remainder % 10000
       IN Returned(<<major, minor, revision>>)

\* Inputs: each component at, inside and outside the ends of its digit span.
MajorVals == -1 .. MaxMajor
MinorVals == {-1, 0, 1, 99, 100}
RevisionVals == {-1, 0, 1, 9999, 10000}
TripleVals == {<<a, b, c>> : a \in MajorVals, b \in MinorVals, c \in RevisionVals}
VersionVals == {BuildVersion(t[1], t[2], t[3]).value : t \in TripleVals} \cup (-1 .. 1)

NoCall == [op |-> "none", args |-> <<>>, raised |-> "none", ret |-> <<>>]

\* A call of BuildVersion, on a drawn triple or on what SplitVersion just returned.
CallBuildVersion ==
  \E t \in TripleVals \cup
           (IF call.op = "SplitVersion" /\ call.raised = "none" THEN {call.ret} ELSE {}) :
    LET r == BuildVersion(t[1], t[2], t[3]) IN
      /\ prev' = call
      /\ call' = [op |-> "BuildVersion", args |-> t, raised |-> r.raised,
                  ret |-> IF r.raised = "none" THEN <<r.value>> ELSE <<>>]
      /\ UNCHANGED <<paramVars, queueVars>>

\* A call of SplitVersion, on a drawn integer or on what BuildVersion just returned.
CallSplitVersion ==
  \E v \in VersionVals \cup
           (IF call.op = "BuildVersion" /\ call.raised = "none" THEN {call.ret[1]} ELSE {}) :
    LET r == SplitVersion(v) IN
      /\ prev' = call
      /\ call' = [op |-> "SplitVersion", args |-> <<v>>, raised |-> r.raised,
                  ret |-> IF r.raised = "none" THEN r.value ELSE <<>>]
      /\ UNCHANGED <<paramVars, queueVars>>

InitCodec == call = NoCall /\ prev = NoCall

(***************************************************************************)
(* Parameter registries                                                    *)
(***************************************************************************)

VTYPE_STRING == "string"
VTYPE_BOOL == "bool"
VTYPE_SIZE == "size"
VTYPE_INT == "int"

HVS_PARAMETER_TYPES ==
  [ boot_order |-> VTYPE_STRING,
    cdrom_image_path |-> VTYPE_STRING,
    nic_type |-> VTYPE_STRING,
    disk_type |-> VTYPE_STRING,
    vnc_bind_address |-> VTYPE_STRING,
    vnc_tls |-> VTYPE_BOOL,
    vnc_x509_path |-> VTYPE_STRING,
    vnc_x509_verify |-> VTYPE_BOOL,
    acpi |-> VTYPE_BOOL,
    pae |-> VTYPE_BOOL,
    kernel_path |-> VTYPE_STRING,
    kernel_args |-> VTYPE_STRING,
    initrd_path |-> VTYPE_STRING,
    root_path |-> VTYPE_STRING,
    serial_console |-> VTYPE_BOOL,
    usb_mouse |-> VTYPE_STRING,
    device_model |-> VTYPE_STRING ]

HVS_PARAMETERS == DOMAIN HVS_PARAMETER_TYPES

BES_PARAMETER_TYPES ==
  [ memory |-> VTYPE_SIZE,
    vcpus |-> VTYPE_INT,
    auto_balance |-> VTYPE_BOOL ]

BES_PARAMETERS == DOMAIN BES_PARAMETER_TYPES

NICS_PARAMETER_TYPES ==
  [ mode |-> VTYPE_STRING,
    link |-> VTYPE_STRING ]

NICS_PARAMETERS == DOMAIN NICS_PARAMETER_TYPES

HT_XEN_PVM == "xen-pvm"
HT_FAKE == "fake"
HT_XEN_HVM == "xen-hvm"
HT_KVM == "kvm"
HYPER_TYPES == {HT_XEN_PVM, HT_FAKE, HT_XEN_HVM, HT_KVM}

HVC_DEFAULTS ==
  HT_XEN_PVM :> [ kernel_path |-> "/boot/vmlinuz-2.6-xenU",
                  initrd_path |-> "",
                  root_path |-> "/dev/sda1",
                  kernel_args |-> "ro" ]
  @@ HT_XEN_HVM :> [ boot_order |-> "cd",
                     cdrom_image_path |-> "",
                     nic_type |-> "rtl8139",
                     disk_type |-> "paravirtual",
                     vnc_bind_address |-> "0.0.0.0",
                     acpi |-> TRUE,
                     pae |-> TRUE,
                     kernel_path |-> "/usr/lib/xen/boot/hvmloader",
                     device_model |-> "/usr/lib/xen/bin/qemu-dm" ]
  @@ HT_KVM :> [ kernel_path |-> "/boot/vmlinuz-2.6-kvmU",
                 initrd_path |-> "",
                 kernel_args |-> "ro",
                 root_path |-> "/dev/vda1",
                 acpi |-> TRUE,
                 serial_console |-> TRUE,
                 vnc_bind_address |-> "",
                 vnc_tls |-> FALSE,
                 vnc_x509_path |-> "",
                 vnc_x509_verify |-> FALSE,
                 cdrom_image_path |-> "",
                 boot_order |-> "disk",
                 nic_type |-> "paravirtual",
                 disk_type |-> "paravirtual",
                 usb_mouse |-> "" ]
  @@ HT_FAKE :> <<>>

\* BEC_DEFAULTS with the memory key misspelt.
BEC_DEFAULTS_Misspelt ==
  [ mem |-> 128,
    vcpus |-> 1,
    auto_balance |-> TRUE ]

BEC_DEFAULTS ==
  [ memory |-> 128,
    vcpus |-> 1,
    auto_balance |-> TRUE ]

NICC_DEFAULTS ==
  [ mode |-> "bridged",
    link |-> "xen-br0" ]

\* The registries: one per hypervisor, the backend and the NIC.
Registries == HYPER_TYPES \cup {"backend", "nic"}

ParameterTypes(registry) ==
  IF registry = "backend" THEN BES_PARAMETER_TYPES
  ELSE IF registry = "nic" THEN NICS_PARAMETER_TYPES
  ELSE HVS_PARAMETER_TYPES

Defaults(registry) ==
  IF registry = "backend" THEN BEC_DEFAULTS
  ELSE IF registry = "nic" THEN NICC_DEFAULTS
  ELSE HVC_DEFAULTS[registry]

\* Every name a registry or a default mapping holds.
AllNames ==
  HVS_PARAMETERS \cup BES_PARAMETERS \cup NICS_PARAMETERS
  \cup UNION {DOMAIN Defaults(r) : r \in Registries}

NoQuery == [registry |-> "none", name |-> "", declared |-> FALSE,
            vtype |-> "", hasDefault |-> FALSE]

\* A read of one registry for one name: its declared kind and whether it has a default.
Lookup ==
  \E registry \in Registries, name \in AllNames :
    /\ query' = [registry |-> registry,
                 name |-> name,
                 declared |-> name \in DOMAIN ParameterTypes(registry),
                 vtype |-> IF name \in DOMAIN ParameterTypes(registry)
                           THEN ParameterTypes(registry)[name] ELSE "",
                 hasDefault |-> name \in DOMAIN Defaults(registry)]
    /\ UNCHANGED <<codecVars, queueVars>>

InitParams == query = NoQuery

(***************************************************************************)
(* Job queue: the directory of job files, the serial allocator, the drain  *)
(* flag, the size limits and the job / opcode status state machine.        *)
(***************************************************************************)

\* Jobs submitted in one run, and opcodes per job.
MaxJobs == 2
MaxOps == 2

JOB_QUEUE_SIZE_HARD_LIMIT == 5000

\* A soft limit at 90% of the hard limit.
JOB_QUEUE_SIZE_SOFT_LIMIT_Ninety == (JOB_QUEUE_SIZE_HARD_LIMIT * 9) \div 10

\* JOB_QUEUE_SIZE_HARD_LIMIT * 0.8
JOB_QUEUE_SIZE_SOFT_LIMIT == (JOB_QUEUE_SIZE_HARD_LIMIT * 8) \div 10

JOB_STATUS_QUEUED == "queued"
JOB_STATUS_WAITLOCK == "waiting"
JOB_STATUS_CANCELING == "canceling"
JOB_STATUS_RUNNING == "running"
JOB_STATUS_CANCELED == "canceled"
JOB_STATUS_SUCCESS == "success"
JOB_STATUS_ERROR == "error"

OP_STATUS_QUEUED == "queued"
OP_STATUS_WAITLOCK == "waiting"
OP_STATUS_CANCELING == "canceling"
OP_STATUS_RUNNING == "running"
OP_STATUS_CANCELED == "canceled"
OP_STATUS_SUCCESS == "success"
OP_STATUS_ERROR == "error"

\* OPS_FINALIZED without the success status.
OPS_FINALIZED_NoSuccess == {OP_STATUS_CANCELED, OP_STATUS_ERROR}

OPS_FINALIZED == {OP_STATUS_CANCELED, OP_STATUS_SUCCESS, OP_STATUS_ERROR}

JobStatuses ==
  {JOB_STATUS_QUEUED, JOB_STATUS_WAITLOCK, JOB_STATUS_CANCELING, JOB_STATUS_RUNNING,
   JOB_STATUS_CANCELED, JOB_STATUS_SUCCESS, JOB_STATUS_ERROR}

\* The table of status changes an update may make.
JobTransitions ==
  { <<JOB_STATUS_QUEUED, JOB_STATUS_WAITLOCK>>,
    <<JOB_STATUS_WAITLOCK, JOB_STATUS_RUNNING>>,
    <<JOB_STATUS_RUNNING, JOB_STATUS_SUCCESS>>,
    <<JOB_STATUS_RUNNING, JOB_STATUS_ERROR>>,
    <<JOB_STATUS_QUEUED, JOB_STATUS_CANCELING>>,
    <<JOB_STATUS_WAITLOCK, JOB_STATUS_CANCELING>>,
    <<JOB_STATUS_RUNNING, JOB_STATUS_CANCELING>>,
    <<JOB_STATUS_CANCELING, JOB_STATUS_CANCELED>> }

\* An update from status cur to status new is accepted.
Legal(cur, new) == cur \notin OPS_FINALIZED /\ <<cur, new>> \in JobTransitions

\* Live job files the queue directory may hold when the daemon first starts.
PreLiveVals == {0, 3999, 4999}

LiveCount == preLive + Cardinality(live)

MaxOf(S) == CHOOSE m \in S : \A x \in S : x <= m

NewJob(n) ==
  [status |-> JOB_STATUS_QUEUED,
   ops |-> [i \in 1 .. n |-> OP_STATUS_QUEUED],
   resumed |-> FALSE]

OpenOps(rec) == {i \in 1 .. Len(rec.ops) : rec.ops[i] \notin OPS_FINALIZED}
FirstOpen(rec) == CHOOSE i \in OpenOps(rec) : \A k \in OpenOps(rec) : i <= k

NoPending == [stage |-> "idle", id |-> 0, nops |-> 0, warning |-> FALSE, liveAt |-> 0]
NoLast == [op |-> "none", result |-> "none", id |-> 0, warning |-> FALSE, liveAt |-> 0,
           status |-> "none"]
\* A refused call: on job id (0: a submit), found in the given status.
Refused(op, result, id, status) ==
  [op |-> op, result |-> result, id |-> id, warning |-> FALSE,
   liveAt |-> IF op = "submit" THEN LiveCount ELSE 0, status |-> status]

LockFree == pending.stage = "idle"

\* A submit check that tests the queue size only.
SubmitError_SizeOnly ==
  IF LiveCount >= JOB_QUEUE_SIZE_HARD_LIMIT THEN "QueueFullError" ELSE "none"

\* Why submit refuses, if it does.
SubmitError ==
  IF drainFile THEN "QueueDrainedError"
  ELSE IF LiveCount >= JOB_QUEUE_SIZE_HARD_LIMIT THEN "QueueFullError"
  ELSE "none"

\* submit(ops), first part: the checks and, under the queue lock, the allocation of
\* the next serial, written to the serial file.
SubmitJob(n) ==
  /\ up /\ LockFree
  /\ IF SubmitError # "none"
     THEN /\ last' = Refused("submit", SubmitError, 0, "none")
          /\ UNCHANGED <<serialFile, memSerial, pending>>
     ELSE /\ serialFile < preLive + MaxJobs
          /\ memSerial' = memSerial + 1
          /\ serialFile' = memSerial + 1
          /\ pending' = [stage |-> "allocated", id |-> memSerial + 1, nops |-> n,
                         warning |-> LiveCount >= JOB_QUEUE_SIZE_SOFT_LIMIT,
                         liveAt |-> LiveCount]
          /\ UNCHANGED last
  /\ UNCHANGED <<codecVars, paramVars, up, drainFile, preLive, jobs, live, archive, claimed, handed>>

\* submit, second part: the job file is written, in queued status.
WriteJob ==
  /\ up /\ pending.stage = "allocated"
  /\ jobs' = (pending.id :> NewJob(pending.nops)) @@ jobs
  /\ live' = live \cup {pending.id}
  /\ pending' = [pending EXCEPT !.stage = "written"]
  /\ UNCHANGED <<codecVars, paramVars, up, serialFile, memSerial, drainFile, preLive, archive, claimed,
                 handed, last>>

\* submit, last part: the lock is released and the ID returned.
ReturnJobId ==
  /\ up /\ pending.stage = "written"
  /\ handed' = Append(handed, pending.id)
  /\ last' = [op |-> "submit", result |-> "ok", id |-> pending.id,
              warning |-> pending.warning, liveAt |-> pending.liveAt,
              status |-> JOB_STATUS_QUEUED]
  /\ pending' = NoPending
  /\ UNCHANGED <<codecVars, paramVars, up, serialFile, memSerial, drainFile, preLive, jobs, live, archive,
                 claimed>>

\* set_drain(flag)
SetDrain(flag) ==
  /\ up /\ LockFree
  /\ drainFile' = flag
  /\ UNCHANGED <<codecVars, paramVars, up, serialFile, memSerial, preLive, jobs, live, archive, claimed,
                 pending, handed, last>>

\* archive(job_id)
ArchiveJob(j) ==
  /\ up /\ LockFree
  /\ j \in DOMAIN jobs
  /\ IF j \in archive
     THEN UNCHANGED <<live, archive, last>>
     ELSE IF jobs[j].status \in OPS_FINALIZED
     THEN /\ live' = live \ {j}
          /\ archive' = archive \cup {j}
          /\ UNCHANGED last
     ELSE /\ last' = Refused("archive", "rejected", j, jobs[j].status)
          /\ UNCHANGED <<live, archive>>
  /\ UNCHANGED <<codecVars, paramVars, up, serialFile, memSerial, drainFile, preLive, jobs, claimed,
                 pending, handed>>

Canceling(rec) ==
  [rec EXCEPT !.status = JOB_STATUS_CANCELING,
              !.ops = [i \in 1 .. Len(rec.ops) |->
                         IF rec.ops[i] \in OPS_FINALIZED THEN rec.ops[i]
                         ELSE OP_STATUS_CANCELING]]

\* CancelJob(job_id): a request on a queued, waiting or running job is accepted.
CancelJob(j) ==
  /\ up
  /\ j \in live
  /\ IF Legal(jobs[j].status, JOB_STATUS_CANCELING)
     THEN /\ jobs' = [jobs EXCEPT ![j] = Canceling(@)]
          /\ UNCHANGED last
     ELSE /\ last' = Refused("cancel", "rejected", j, jobs[j].status)
          /\ UNCHANGED jobs
  /\ UNCHANGED <<codecVars, paramVars, up, serialFile, memSerial, drainFile, preLive, live, archive, claimed,
                 pending, handed>>

\* The job's unit (or the store, for an unclaimed job) honours the cancellation:
\* the current and the remaining opcodes become canceled.
ResolveCancel(j) ==
  /\ up
  /\ j \in live
  /\ jobs[j].status = JOB_STATUS_CANCELING
  /\ Legal(jobs[j].status, JOB_STATUS_CANCELED)
  /\ jobs' = [jobs EXCEPT ![j].status = JOB_STATUS_CANCELED,
                          ![j].ops = [i \in 1 .. Len(jobs[j].ops) |->
                                        IF jobs[j].ops[i] \in OPS_FINALIZED
                                        THEN jobs[j].ops[i]
                                        ELSE OP_STATUS_CANCELED]]
  /\ claimed' = claimed \ {j}
  /\ UNCHANGED <<codecVars, paramVars, up, serialFile, memSerial, drainFile, preLive, live, archive,
                 pending, handed, last>>

\* update(job_id, mutator) asking for a status change the table does not allow.
IllegalUpdate(j, s) ==
  /\ up
  /\ j \in live
  /\ ~Legal(jobs[j].status, s)
  /\ last' = Refused("update", "ProgrammingError", j, jobs[j].status)
  /\ UNCHANGED <<codecVars, paramVars, up, serialFile, memSerial, drainFile, preLive, jobs, live, archive,
                 claimed, pending, handed>>

\* The scheduler picks the queued job with the lowest ID.
ClaimJob(j) ==
  /\ up
  /\ j \in live /\ j \notin claimed
  /\ jobs[j].status = JOB_STATUS_QUEUED
  /\ \A k \in live : (k \notin claimed /\ jobs[k].status = JOB_STATUS_QUEUED) => j <= k
  /\ Legal(jobs[j].status, JOB_STATUS_WAITLOCK)
  /\ jobs' = [jobs EXCEPT ![j].status = JOB_STATUS_WAITLOCK,
                          ![j].ops[1] = OP_STATUS_WAITLOCK]
  /\ claimed' = claimed \cup {j}
  /\ UNCHANGED <<codecVars, paramVars, up, serialFile, memSerial, drainFile, preLive, live, archive,
                 pending, handed, last>>

\* The job's unit starts executing the job's current opcode.
StartOp(j) ==
  /\ up
  /\ j \in claimed
  /\ jobs[j].status \in {JOB_STATUS_WAITLOCK, JOB_STATUS_RUNNING}
  /\ OpenOps(jobs[j]) # {}
  /\ LET i == FirstOpen(jobs[j]) IN
       /\ jobs[j].ops[i] = OP_STATUS_WAITLOCK
       /\ jobs' = [jobs EXCEPT ![j].status = JOB_STATUS_RUNNING,
                               ![j].ops[i] = OP_STATUS_RUNNING]
  /\ UNCHANGED <<codecVars, paramVars, up, serialFile, memSerial, drainFile, preLive, live, archive,
                 claimed, pending, handed, last>>

\* The current opcode ends; its status is written at once. A failure cancels the
\* opcodes after it; a success moves on to the next opcode or ends the job.
FinishOp(j, res) ==
  /\ up
  /\ j \in claimed
  /\ jobs[j].status = JOB_STATUS_RUNNING
  /\ OpenOps(jobs[j]) # {}
  /\ LET rec == jobs[j]
         i == FirstOpen(rec)
         n == Len(rec.ops)
     IN
       /\ rec.ops[i] = OP_STATUS_RUNNING
       /\ IF res = OP_STATUS_ERROR
          THEN /\ jobs' = [jobs EXCEPT ![j].status = JOB_STATUS_ERROR,
                                       ![j].ops = [k \in 1 .. n |->
                                                     IF k < i THEN rec.ops[k]
                                                     ELSE IF k = i THEN OP_STATUS_ERROR
                                                     ELSE OP_STATUS_CANCELED]]
               /\ claimed' = claimed \ {j}
          ELSE IF i = n
          THEN /\ jobs' = [jobs EXCEPT ![j].status = JOB_STATUS_SUCCESS,
                                       ![j].ops[i] = OP_STATUS_SUCCESS]
               /\ claimed' = claimed \ {j}
          ELSE /\ jobs' = [jobs EXCEPT ![j].ops[i] = OP_STATUS_SUCCESS,
                                       ![j].ops[i + 1] = OP_STATUS_WAITLOCK]
               /\ UNCHANGED claimed
  /\ UNCHANGED <<codecVars, paramVars, up, serialFile, memSerial, drainFile, preLive, live, archive,
                 pending, handed, last>>

\* The daemon dies: what it held in memory is gone, the files stay.
Crash ==
  /\ up
  /\ up' = FALSE
  /\ claimed' = {}
  /\ pending' = NoPending
  /\ memSerial' = 0
  /\ last' = NoLast
  /\ UNCHANGED <<codecVars, paramVars, serialFile, drainFile, preLive, jobs, live, archive, handed>>

\* A serial taken from the highest live job ID instead of the serial file.
LoadSerial_FromLive == MaxOf(live \cup {preLive})

\* The serial the daemon starts from: the content of the serial file.
LoadSerial == serialFile

\* A job found waiting or running without a unit: back to queued if none of its
\* opcodes is finalized, else resumed at its first opcode that is not.
Recover(rec) ==
  IF rec.status \notin {JOB_STATUS_WAITLOCK, JOB_STATUS_RUNNING}
  THEN rec
  ELSE IF \A i \in 1 .. Len(rec.ops) : rec.ops[i] \notin OPS_FINALIZED
  THEN [rec EXCEPT !.status = JOB_STATUS_QUEUED,
                   !.ops = [i \in 1 .. Len(rec.ops) |-> OP_STATUS_QUEUED]]
  ELSE [rec EXCEPT !.status = JOB_STATUS_RUNNING,
                   !.ops[FirstOpen(rec)] = OP_STATUS_WAITLOCK,
                   !.resumed = TRUE]

Resumes(rec) ==
  /\ rec.status \in {JOB_STATUS_WAITLOCK, JOB_STATUS_RUNNING}
  /\ \E i \in 1 .. Len(rec.ops) : rec.ops[i] \in OPS_FINALIZED

\* The daemon starts: it loads the serial and recovers the live jobs.
Restart ==
  /\ ~up
  /\ up' = TRUE
  /\ memSerial' = LoadSerial
  /\ jobs' = [j \in DOMAIN jobs |-> IF j \in live THEN Recover(jobs[j]) ELSE jobs[j]]
  /\ claimed' = {j \in live : Resumes(jobs[j])}
  /\ UNCHANGED <<codecVars, paramVars, serialFile, drainFile, preLive, live, archive, pending, handed,
                 last>>

InitQueue ==
  /\ up = TRUE
  /\ preLive \in PreLiveVals
  /\ serialFile = preLive
  /\ memSerial = preLive
  /\ drainFile = FALSE
  /\ jobs = <<>>
  /\ live = {}
  /\ archive = {}
  /\ claimed = {}
  /\ pending = NoPending
  /\ handed = <<>>
  /\ last = NoLast

(***************************************************************************)
(* Specifications                                                          *)
(***************************************************************************)

vars == <<call, prev, query, up, serialFile, memSerial, drainFile, preLive, jobs,
          live, archive, claimed, pending, handed, last>>

InitAny == InitCodec /\ InitParams /\ InitQueue

\* The queue from an empty directory.
Init == InitAny /\ preLive = 0

\* The job queue.
Next ==
  \/ \E n \in 1 .. MaxOps : SubmitJob(n)
  \/ WriteJob
  \/ ReturnJobId
  \/ \E flag \in BOOLEAN : SetDrain(flag)
  \/ \E j \in DOMAIN jobs : ArchiveJob(j)
  \/ \E j \in DOMAIN jobs : CancelJob(j)
  \/ \E j \in DOMAIN jobs : ResolveCancel(j)
  \/ \E j \in DOMAIN jobs, s \in JobStatuses : IllegalUpdate(j, s)
  \/ \E j \in DOMAIN jobs : ClaimJob(j)
  \/ \E j \in DOMAIN jobs : StartOp(j)
  \/ \E j \in DOMAIN jobs, res \in {OP_STATUS_SUCCESS, OP_STATUS_ERROR} : FinishOp(j, res)
  \/ Crash
  \/ Restart
Spec == Init /\ [][Next]_vars

\* The queue from a directory filled to just below its soft or its hard limit.
InitSize == InitAny /\ preLive # 0
SpecSize == InitSize /\ [][Next]_vars

\* The version codec and the registries, beside an empty queue.
NextCodec == CallBuildVersion \/ CallSplitVersion
SpecCodec == Init /\ [][NextCodec]_vars

NextParams == Lookup
SpecParams == Init /\ [][NextParams]_vars

(***************************************************************************)
(* Properties of the version codec (checked under SpecCodec)               *)
(***************************************************************************)

\* A triple inside the digit spans the format reserves.
Valid(t) == t[1] >= 0 /\ 0 <= t[2] /\ t[2] < 100 /\ 0 <= t[3] /\ t[3] < 10000

\* Lexicographic order on triples.
LexLess(s, t) ==
  \/ s[1] < t[1]
  \/ s[1] = t[1] /\ s[2] < t[2]
  \/ s[1] = t[1] /\ s[2] = t[2] /\ s[3] < t[3]

BuiltThenSplit ==
  /\ prev.op = "BuildVersion" /\ prev.raised = "none"
  /\ call.op = "SplitVersion" /\ call.args = prev.ret

SplitThenBuilt ==
  /\ prev.op = "SplitVersion" /\ prev.raised = "none"
  /\ call.op = "BuildVersion" /\ call.args = prev.ret

TwoBuilt ==
  /\ prev.op = "BuildVersion" /\ prev.raised = "none"
  /\ call.op = "BuildVersion" /\ call.raised = "none"

\* C1: for every valid triple (major >= 0, 0 <= minor < 100, 0 <= revision < 10000),
\* SplitVersion(BuildVersion(major, minor, revision)) returns exactly that triple.
C1_RoundTrip ==
  (BuiltThenSplit /\ Valid(prev.args)) => (call.raised = "none" /\ call.ret = prev.args)

C1_Witness ==
  /\ BuiltThenSplit
  /\ prev.args = <<1, 99, 9999>>
  /\ call.ret = <<1, 99, 9999>>

\* C2 as stated: BuildVersion fails, returning no integer, whenever a component is
\* negative or overflows its digit span, and so never returns the same integer for
\* two different triples.
C2_FailsOutOfRange ==
  /\ (call.op = "BuildVersion" /\ ~Valid(call.args)) => call.raised # "none"
  /\ (TwoBuilt /\ call.args # prev.args) => call.ret # prev.ret

\* C2 as amended: BuildVersion checks no range. For every triple of integers, also
\* with negative or overflowing components, it raises nothing and returns
\* 1000000 * major + 10000 * minor + revision; two different triples return the same
\* integer only when one of them is out of range, as (0, 100, 0) and (1, 0, 0) do.
C2_NoRangeCheck ==
  /\ call.op = "BuildVersion" =>
       /\ call.raised = "none"
       /\ call.ret = <<1000000 * call.args[1] + 10000 * call.args[2] + call.args[3]>>
  /\ (TwoBuilt /\ call.args # prev.args /\ call.ret = prev.ret) =>
       (~Valid(call.args) \/ ~Valid(prev.args))

C2_Witness ==
  /\ TwoBuilt
  /\ prev.args = <<1, 0, 0>>
  /\ call.args = <<0, 100, 0>>
  /\ call.ret = <<1000000>>
  /\ prev.ret = <<1000000>>

\* C9: on valid triples the encoded version is ordered as the triples are:
\* BuildVersion(t1) < BuildVersion(t2) exactly when t1 precedes t2 lexicographically,
\* and the two are equal exactly when t1 = t2.
C9_OrderPreserving ==
  (TwoBuilt /\ Valid(prev.args) /\ Valid(call.args)) =>
    /\ (prev.ret[1] < call.ret[1]) <=> LexLess(prev.args, call.args)
    /\ (prev.ret[1] = call.ret[1]) <=> (prev.args = call.args)

C9_Witness ==
  /\ TwoBuilt
  /\ prev.args = <<0, 99, 9999>>
  /\ call.args = <<1, 0, 0>>
  /\ prev.ret[1] < call.ret[1]

\* C10: SplitVersion never fails on an integer v >= 0, returns a valid triple, and
\* BuildVersion of that triple is v again.
C10_RightInverse ==
  /\ (call.op = "SplitVersion" /\ call.args[1] >= 0) =>
       (call.raised = "none" /\ Valid(call.ret))
  /\ (SplitThenBuilt /\ prev.args[1] >= 0) =>
       (call.raised = "none" /\ call.ret = prev.args)

C10_Witness ==
  /\ SplitThenBuilt
  /\ prev.args = <<1009999>>
  /\ prev.ret = <<1, 0, 9999>>
  /\ call.ret = <<1009999>>

(***************************************************************************)
(* Properties of the parameter registries (checked under SpecParams)       *)
(***************************************************************************)

DefaultNames(registry) == DOMAIN Defaults(registry)
DeclaredNames(registry) == DOMAIN ParameterTypes(registry)

\* C8 as stated: in every registry the names with a default are a strict subset of
\* the declared names.
C8_StrictSubset ==
  query.registry # "none" =>
    /\ DefaultNames(query.registry) \subseteq DeclaredNames(query.registry)
    /\ DefaultNames(query.registry) # DeclaredNames(query.registry)

\* C8 as amended: in every registry the names with a default are a subset of the
\* declared names; the subset is strict for each hypervisor, while the backend and
\* the NIC registries give a default to every declared name.
C8_Subset ==
  query.registry # "none" =>
    /\ query.hasDefault => query.declared
    /\ DefaultNames(query.registry) \subseteq DeclaredNames(query.registry)
    /\ query.registry \in HYPER_TYPES =>
         DefaultNames(query.registry) # DeclaredNames(query.registry)
    /\ query.registry \in {"backend", "nic"} =>
         DefaultNames(query.registry) = DeclaredNames(query.registry)

C8_Witness ==
  /\ query.registry = "backend"
  /\ query.name = "memory"
  /\ query.hasDefault
  /\ query.declared
  /\ query.vtype = VTYPE_SIZE

(***************************************************************************)
(* Properties of the job queue (checked under Spec and SpecSize)           *)
(***************************************************************************)

Terminal == {"success", "error", "canceled"}

SubmitStep == \E n \in 1 .. MaxOps : SubmitJob(n)
RestartStep == ~up /\ up'

\* C3: the job IDs returned are strictly increasing, none is assigned twice, and
\* the serial file, written before an ID is returned, is never below an ID that was
\* returned or given to a job, whatever crashes, restarts and archivals come between.
C3_SerialMonotone ==
  /\ \A i, k \in 1 .. Len(handed) : i < k => handed[i] < handed[k]
  /\ \A i \in 1 .. Len(handed) : handed[i] <= serialFile /\ handed[i] \in DOMAIN jobs
  /\ \A j \in DOMAIN jobs : j <= serialFile
  /\ live \cap archive = {} /\ live \cup archive = DOMAIN jobs
  /\ pending.stage # "idle" =>
       /\ pending.id <= serialFile
       /\ \A i \in 1 .. Len(handed) : handed[i] < pending.id
  /\ pending.stage = "allocated" => pending.id \notin DOMAIN jobs

\* ID 1 was burnt by a crash between its allocation and its return; the next ID
\* returned is 2.
C3_Witness ==
  /\ up
  /\ handed = <<2>>
  /\ serialFile = 2
  /\ 1 \notin live \cup archive

\* The status changes of a job that C4 as stated allows.
StatedEdges ==
  { <<"queued", "waiting">>, <<"waiting", "running">>,
    <<"running", "success">>, <<"running", "error">>, <<"running", "canceled">>,
    <<"queued", "canceling">>, <<"waiting", "canceling">>, <<"running", "canceling">>,
    <<"canceling", "canceled">> }

\* A step leaves every finalized job and opcode status alone, and a refused update,
\* cancel or archive leaves every record as it was.
Absorbing ==
  /\ \A j \in DOMAIN jobs :
       /\ j \in DOMAIN jobs'
       /\ jobs[j].status \in Terminal => jobs'[j].status = jobs[j].status
       /\ \A i \in 1 .. Len(jobs[j].ops) :
            jobs[j].ops[i] \in Terminal => jobs'[j].ops[i] = jobs[j].ops[i]
       /\ (j \in live /\ jobs[j].status \in Terminal /\ CancelJob(j)) =>
            (last'.result = "rejected" /\ jobs' = jobs)
       /\ \A s \in JobStatuses : jobs[j].status \in Terminal => ~Legal(jobs[j].status, s)
  /\ (last' # last /\ last'.result \in {"rejected", "ProgrammingError"}) => jobs' = jobs

FirstNotTerminal(rec) ==
  CHOOSE i \in 1 .. Len(rec.ops) :
    /\ rec.ops[i] \notin Terminal
    /\ \A k \in 1 .. (i - 1) : rec.ops[k] \in Terminal

\* C5: however often the daemon crashes and restarts, an opcode that was finalized
\* keeps its status and is not executed again; at a restart a waiting or running job
\* with a finalized opcode is resumed at its first opcode that is not finalized, one
\* without goes back to queued; and a job whose opcodes all ended in success, such
\* as [A, B] resumed at B after A, has status success.
C5_NoRerun ==
  /\ [][ \A j \in DOMAIN jobs :
           /\ \A i \in 1 .. Len(jobs[j].ops) :
                /\ jobs[j].ops[i] \in Terminal => jobs'[j].ops[i] = jobs[j].ops[i]
                /\ (jobs'[j].ops[i] = "running" /\ jobs[j].ops[i] # "running") =>
                     /\ jobs[j].ops[i] = "waiting"
                     /\ \A k \in 1 .. (i - 1) : jobs[j].ops[k] = "success"
           /\ (RestartStep /\ j \in live /\ jobs[j].status \in {"waiting", "running"}) =>
                IF \E i \in 1 .. Len(jobs[j].ops) : jobs[j].ops[i] \in Terminal
                THEN /\ jobs'[j].status = "running"
                     /\ j \in claimed'
                     /\ jobs'[j].ops =
                          [jobs[j].ops EXCEPT ![FirstNotTerminal(jobs[j])] = "waiting"]
                ELSE /\ jobs'[j].status = "queued"
                     /\ j \notin claimed'
                     /\ \A i \in 1 .. Len(jobs[j].ops) : jobs'[j].ops[i] = "queued" ]_vars
  /\ [](\A j \in DOMAIN jobs :
          (\A i \in 1 .. Len(jobs[j].ops) : jobs[j].ops[i] = "success")
            <=> jobs[j].status = "success")

\* A job [A, B] that was resumed after a crash and has ended in success.
C5_Witness ==
  \E j \in DOMAIN jobs :
    /\ jobs[j].resumed
    /\ jobs[j].ops = <<"success", "success">>
    /\ jobs[j].status = "success"

\* C6: while the drain file is present every submit is refused with
\* QueueDrainedError and changes neither the serial nor the job files nor the live
\* and archive sets; once it is cleared submit is accepted again; and set_drain
\* changes no job.
C6_Drain ==
  [][ /\ (SubmitStep /\ drainFile) =>
           /\ last'.op = "submit" /\ last'.result = "QueueDrainedError"
           /\ UNCHANGED <<serialFile, memSerial, jobs, live, archive, pending, handed>>
      /\ serialFile' # serialFile => ~drainFile
      /\ (SubmitStep /\ ~drainFile /\ LiveCount < 5000) =>
           /\ pending'.stage = "allocated"
           /\ serialFile' = serialFile + 1
      /\ drainFile' # drainFile => UNCHANGED <<jobs, live, archive, serialFile>> ]_vars

\* A submit was refused for the drain file while a job was queued; the file has
\* since been cleared and the next submit has been given a serial.
C6_Witness ==
  /\ last.op = "submit"
  /\ last.result = "QueueDrainedError"
  /\ ~drainFile
  /\ pending.stage = "allocated"
  /\ pending.id = 2
  /\ jobs[1].status = "queued"

=============================================================================
